---- MODULE Spec2Model ----
(***************************************************************************)
(* Overchess: a chessboard with an attack overlay, played against a chess  *)
(* engine that runs in a background worker.  The module models             *)
(*   - the attack geometry (getPieceAttacks, getSlidingRayEndpoints) and   *)
(*     the attacker index (getAttackerMap) as operators over the grid that *)
(*     chess.board() returns, and                                          *)
(*   - the game session (inputHandler, askStockfish, applyStockfishMove,   *)
(*     enableInput, updateInfo, the worker's message listener and the two  *)
(*     setTimeout callbacks) as a state machine.                           *)
(* The rules engine (chess.js), the board widget (cm-chessboard) and the   *)
(* engine process (Stockfish) are external collaborators; the module keeps *)
(* of them only the state and the answers the session reads.               *)
(***************************************************************************)
EXTENDS Integers, Sequences, FiniteSets, Bags, TLC

(***************************************************************************)
(* Bounds of the model.                                                    *)
(***************************************************************************)
\* pieces added to the subject piece on a board of the geometry specification
MaxExtra == 2
\* moves applied to the position in one game of the session specification
MaxPlies == 3

(***************************************************************************)
(* Squares.  A square is the two-character string of its algebraic name,   *)
(* kept as the pair of its characters: <<"e", "4">> is 'e4'.               *)
(***************************************************************************)
FileChars == <<"a", "b", "c", "d", "e", "f", "g", "h">>
RankChars == <<"1", "2", "3", "4", "5", "6", "7", "8">>

BoardSize == 8

Squares == {<<FileChars[i], RankChars[j]>> : i \in 1..BoardSize, j \in 1..BoardSize}

\* the absent piece of a grid cell (null), and the absent optional argument
None == [type |-> "", color |-> "", square |-> <<>>]
NoSquare == <<>>

\* square.charCodeAt(0) - 97
fileOf(square) == (CHOOSE i \in 1..BoardSize : FileChars[i] = square[1]) - 1
\* parseInt(square[1]) - 1
rankOf(square) == (CHOOSE j \in 1..BoardSize : RankChars[j] = square[2]) - 1

\* String.fromCharCode(97 + f) + (r + 1)
toSq(f, r) == <<FileChars[f + 1], RankChars[r + 1]>>

\* inBounds taking the first rank for off the board
inBoundsAboveFirstRank(f, r) == f >= 0 /\ f < BoardSize /\ r > 0 /\ r < BoardSize

inBounds(f, r) == f >= 0 /\ f < BoardSize /\ r >= 0 /\ r < BoardSize

\* boardGrid[7 - r]?.[f]: row 0 of the grid is rank 8
pieceAt(boardGrid, f, r) == boardGrid[7 - r][f]

\* squareToXY: column and row of the unit grid, rank 8 on top
squareToXY(sq) == [x |-> fileOf(sq), y |-> 7 - rankOf(sq)]

\* Flatten taking the lists last to first
RECURSIVE FlattenBackwards(_)
FlattenBackwards(seqs) ==
    IF seqs = <<>> THEN <<>> ELSE FlattenBackwards(Tail(seqs)) \o Head(seqs)

RECURSIVE Flatten(_)
Flatten(seqs) == IF seqs = <<>> THEN <<>> ELSE Head(seqs) \o Flatten(Tail(seqs))

Range(seq) == {seq[i] : i \in 1..Len(seq)}

(***************************************************************************)
(* Attack geometry.                                                        *)
(***************************************************************************)
KnightOffsets == << <<-2, -1>>, <<-2, 1>>, <<-1, -2>>, <<-1, 2>>,
                    <<1, -2>>, <<1, 2>>, <<2, -1>>, <<2, 1>> >>
BishopDirs == << <<-1, -1>>, <<-1, 1>>, <<1, -1>>, <<1, 1>> >>
RookDirs == << <<-1, 0>>, <<1, 0>>, <<0, -1>>, <<0, 1>> >>
QueenDirs == << <<-1, -1>>, <<-1, 1>>, <<1, -1>>, <<1, 1>>,
                <<-1, 0>>, <<1, 0>>, <<0, -1>>, <<0, 1>> >>
KingOffsets == << <<-1, -1>>, <<-1, 0>>, <<-1, 1>>, <<0, -1>>,
                  <<0, 1>>, <<1, -1>>, <<1, 0>>, <<1, 1>> >>

\* jump computing the file modulo the width of the board
jumpWrapsFile(file, rank, df, dr) ==
    IF inBounds((file + df) % BoardSize, rank + dr)
    THEN <<toSq((file + df) % BoardSize, rank + dr)>>
    ELSE <<>>

\* jump: the target square when it is on the board
jump(file, rank, df, dr) ==
    IF inBounds(file + df, rank + dr) THEN <<toSq(file + df, rank + dr)>> ELSE <<>>

\* slideLoop without its break: the ray runs through the pieces to the edge
RECURSIVE slideLoopNoBreak(_, _, _, _, _)
slideLoopNoBreak(boardGrid, f, r, df, dr) ==
    IF ~inBounds(f, r) THEN <<>>
    ELSE <<toSq(f, r)>> \o slideLoopNoBreak(boardGrid, f + df, r + dr, df, dr)

\* the while loop of slide, entered at (f, r): push the square, stop on a piece
RECURSIVE slideLoop(_, _, _, _, _)
slideLoop(boardGrid, f, r, df, dr) ==
    IF ~inBounds(f, r) THEN <<>>
    ELSE <<toSq(f, r)>> \o
         (IF pieceAt(boardGrid, f, r) # None THEN <<>>
          ELSE slideLoop(boardGrid, f + df, r + dr, df, dr))

slide(boardGrid, file, rank, df, dr) == slideLoop(boardGrid, file + df, rank + dr, df, dr)

\* getPieceAttacks with the pawn of either colour attacking up the board
getPieceAttacksPawnUp(boardGrid, type, color, square) ==
    LET file == fileOf(square)
        rank == rankOf(square)
        jumps(offs) == Flatten([i \in 1..Len(offs) |-> jump(file, rank, offs[i][1], offs[i][2])])
        slides(dirs) == Flatten([i \in 1..Len(dirs) |->
                                    slide(boardGrid, file, rank, dirs[i][1], dirs[i][2])])
    IN  CASE type = "p" -> jump(file, rank, -1, 1) \o jump(file, rank, 1, 1)
          [] type = "n" -> jumps(KnightOffsets)
          [] type = "b" -> slides(BishopDirs)
          [] type = "r" -> slides(RookDirs)
          [] type = "q" -> slides(QueenDirs)
          [] type = "k" -> jumps(KingOffsets)
          [] OTHER -> <<>>

getPieceAttacks(boardGrid, type, color, square) ==
    LET file == fileOf(square)
        rank == rankOf(square)
        jumps(offs) == Flatten([i \in 1..Len(offs) |-> jump(file, rank, offs[i][1], offs[i][2])])
        slides(dirs) == Flatten([i \in 1..Len(dirs) |->
                                    slide(boardGrid, file, rank, dirs[i][1], dirs[i][2])])
    IN  CASE type = "p" -> LET dir == IF color = "w" THEN 1 ELSE -1
                           IN  jump(file, rank, -1, dir) \o jump(file, rank, 1, dir)
          [] type = "n" -> jumps(KnightOffsets)
          [] type = "b" -> slides(BishopDirs)
          [] type = "r" -> slides(RookDirs)
          [] type = "q" -> slides(QueenDirs)
          [] type = "k" -> jumps(KingOffsets)
          [] OTHER -> <<>>

\* the dirs table of getSlidingRayEndpoints; a type it lacks has no rays
slidingDirs(type) ==
    CASE type = "b" -> BishopDirs
      [] type = "r" -> RookDirs
      [] type = "q" -> QueenDirs
      [] OTHER -> <<>>

\* slideEndLoop stopping one square short of a piece
RECURSIVE slideEndLoopBefore(_, _, _, _, _, _)
slideEndLoopBefore(boardGrid, f, r, df, dr, last) ==
    IF ~inBounds(f, r) THEN last
    ELSE IF pieceAt(boardGrid, f, r) # None THEN last
         ELSE slideEndLoopBefore(boardGrid, f + df, r + dr, df, dr, toSq(f, r))

\* the while loop of slideEnd, entered at (f, r) with the last square seen
RECURSIVE slideEndLoop(_, _, _, _, _, _)
slideEndLoop(boardGrid, f, r, df, dr, last) ==
    IF ~inBounds(f, r) THEN last
    ELSE IF pieceAt(boardGrid, f, r) # None THEN toSq(f, r)
         ELSE slideEndLoop(boardGrid, f + df, r + dr, df, dr, toSq(f, r))

\* slideEnd: the last square of the ray, pushed when there is one
slideEnd(boardGrid, file, rank, df, dr) ==
    LET last == slideEndLoop(boardGrid, file + df, rank + dr, df, dr, NoSquare)
    IN  IF last # NoSquare THEN <<last>> ELSE <<>>

getSlidingRayEndpoints(boardGrid, type, color, square) ==
    LET file == fileOf(square)
        rank == rankOf(square)
        dirs == slidingDirs(type)
    IN  Flatten([i \in 1..Len(dirs) |->
                    slideEnd(boardGrid, file, rank, dirs[i][1], dirs[i][2])])

\* the pieces of chess.board(): the cells the two for loops do not skip as empty
boardPieces(boardGrid) == {boardGrid[row][col] : row \in 0..7, col \in 0..7} \ {None}

\* a fresh entry of the map: { w: new Set(), b: new Set() }
NewEntry == [w |-> {}, b |-> {}]
EmptyMap == [sq \in {} |-> NewEntry]

\* attackerAdds without the test of the excluded square
attackerAddsAll(boardGrid, excludeSquare) ==
    UNION { {<<sq, piece.color, piece.type>> :
                sq \in Range(getPieceAttacks(boardGrid, piece.type, piece.color, piece.square))} :
            piece \in boardPieces(boardGrid) }

\* The add calls of getAttackerMap, one <<sq, color, type>> for each square sq of
\* the attacks of each piece the loops do not skip.
attackerAdds(boardGrid, excludeSquare) ==
    UNION { {<<sq, piece.color, piece.type>> :
                sq \in Range(getPieceAttacks(boardGrid, piece.type, piece.color, piece.square))} :
            piece \in {p \in boardPieces(boardGrid) : p.square # excludeSquare} }

\* getAttackerMap: ensure(sq) makes an entry for every square of an add call, and
\* the entry's set of a colour collects the types added for it.  excludeSquare is
\* NoSquare when the argument is not passed.
getAttackerMap(boardGrid, excludeSquare) ==
    LET adds == attackerAdds(boardGrid, excludeSquare)
    IN  [sq \in {a[1] : a \in adds} |->
            [w |-> {a[3] : a \in {x \in adds : x[1] = sq /\ x[2] = "w"}},
             b |-> {a[3] : a \in {x \in adds : x[1] = sq /\ x[2] = "b"}}]]

(***************************************************************************)
(* Boards.                                                                 *)
(***************************************************************************)
Piece(type, color, sq) == [type |-> type, color |-> color, square |-> sq]

EmptyGrid == [row \in 0..7 |-> [col \in 0..7 |-> None]]

\* the grid with piece p standing on p.square
put(boardGrid, p) ==
    [boardGrid EXCEPT ![7 - rankOf(p.square)][fileOf(p.square)] = p]

\* the piece standing on sq, or None
at(boardGrid, sq) == boardGrid[7 - rankOf(sq)][fileOf(sq)]

BackRank == <<"r", "n", "b", "q", "k", "b", "n", "r">>

\* FEN.start, as chess.board() reports it
StartGrid ==
    [row \in 0..7 |-> [col \in 0..7 |->
        CASE row = 0 -> Piece(BackRank[col + 1], "b", toSq(col, 7))
          [] row = 1 -> Piece("p", "b", toSq(col, 6))
          [] row = 6 -> Piece("p", "w", toSq(col, 1))
          [] row = 7 -> Piece(BackRank[col + 1], "w", toSq(col, 0))
          [] OTHER -> None]]

(***************************************************************************)
(* State.                                                                  *)
(***************************************************************************)
VARIABLES
    grid,           \* chess.board(): the rules engine's position
    turn,           \* chess.turn()
    verdict,        \* the rules engine's verdict on the position
    shown,          \* the position the board widget displays
    inputEnabled,   \* the board widget accepts move input (for white)
    dragFrom,       \* the source square of the move input in progress
    markers,        \* the legal-move markers on the board widget
    turnText,       \* turnEl.textContent
    statusText,     \* statusEl.textContent
    stockfishReady, \* the handshake reply has arrived
    sent,           \* the commands posted to the worker, oldest first
    timers,         \* the pending setTimeout callbacks
    engine,         \* the engine process: what it still has to answer
    currentSettings,\* the settings of the last updateOverlay call
    overlay,        \* what the last updateOverlay call rendered
    settings,       \* the shell's settings
    mounted,        \* the shell's onMount has run
    applied,        \* the moves applied to the position, oldest first
    ret,            \* what the last inputHandler call returned
    uncaught,       \* an exception has escaped a handler
    geo             \* the last geometry query and its result

chessVars == <<grid, turn, verdict>>
widgetVars == <<shown, inputEnabled, dragFrom, markers, turnText, statusText>>
engineVars == <<stockfishReady, sent, timers, engine>>
overlayVars == <<currentSettings, overlay>>
shellVars == <<settings, mounted>>
logVars == <<applied, ret, uncaught>>
sessionVars == <<chessVars, widgetVars, engineVars, overlayVars, shellVars, logVars>>
vars == <<sessionVars, geo>>

(***************************************************************************)
(* The geometry specification: the three geometry functions applied to     *)
(* bounded boards.  A board is one subject piece, of any type and colour   *)
(* on any square, and up to MaxExtra of the pieces of ExtraPieces.  The    *)
(* functions read occupancy only, so a board need not be a legal position. *)
(***************************************************************************)
PieceTypes == {"p", "n", "b", "r", "q", "k"}
Colors == {"w", "b"}
SlidingTypes == {"b", "r", "q"}

\* The kinds of the subject piece: every type, the pawn in both colours (the only
\* type whose attacks depend on the colour).
SubjectKinds == { <<"p", "w">>, <<"p", "b">>, <<"n", "b">>, <<"b", "b">>,
                  <<"r", "w">>, <<"q", "w">>, <<"k", "b">> }

\* a pawn never stands on its first or on its last rank
SubjectPieces ==
    {Piece(k[1], k[2], sq) : k \in SubjectKinds, sq \in Squares} \
    {Piece("p", c, sq) : c \in Colors, sq \in {s \in Squares : rankOf(s) \in {0, 7}}}

ExtraPieces ==
    { Piece("p", "w", <<"a", "2">>), Piece("r", "b", <<"a", "5">>),
      Piece("b", "w", <<"d", "4">>), Piece("p", "b", <<"e", "5">>) }

NoQuery == [fn |-> "", piece |-> None, attacks |-> <<>>, endpoints |-> <<>>,
            excludeSquare |-> NoSquare, map |-> EmptyMap]

\* a run sets up a board, then applies one of the functions to it
PlaceExtra(p) ==
    /\ geo = NoQuery
    /\ Cardinality(boardPieces(grid)) < 1 + MaxExtra
    /\ at(grid, p.square) = None
    /\ grid' = put(grid, p)
    /\ geo' = NoQuery
    /\ UNCHANGED <<turn, verdict, widgetVars, engineVars, overlayVars, shellVars, logVars>>

\* getPieceAttacks and getSlidingRayEndpoints, called as the renderer calls them
QueryPiece(p) ==
    /\ geo = NoQuery
    /\ geo' = [NoQuery EXCEPT !.fn = "piece", !.piece = p,
                 !.attacks = getPieceAttacks(grid, p.type, p.color, p.square),
                 !.endpoints = getSlidingRayEndpoints(grid, p.type, p.color, p.square)]
    /\ UNCHANGED sessionVars

QueryMap(excludeSquare) ==
    /\ geo = NoQuery
    /\ geo' = [NoQuery EXCEPT !.fn = "map", !.excludeSquare = excludeSquare,
                 !.map = getAttackerMap(grid, excludeSquare)]
    /\ UNCHANGED sessionVars

(***************************************************************************)
(* The state initOverchess leaves behind.                                  *)
(***************************************************************************)
defaultSettings == [side |-> "white", style |-> "squares"]

NoFen == [grid |-> <<>>, turn |-> ""]
Command(cmd) == [cmd |-> cmd, fen |-> NoFen]

\* the three commands posted right after the worker is created
InitCommands == <<Command("uci"), Command("setoption name Skill Level value 10"),
                  Command("ucinewgame")>>

NoOverlay == [rendered |-> FALSE, excludeSquare |-> NoSquare, index |-> EmptyMap,
              fills |-> EmptyBag, outlines |-> EmptyBag]
NoReturn == [type |-> "", value |-> TRUE]

InitRest ==
    /\ turn = "w"
    /\ verdict = ""
    /\ shown = StartGrid
    /\ inputEnabled = FALSE
    /\ dragFrom = NoSquare
    /\ markers = {}
    /\ turnText = ""
    /\ statusText = ""
    /\ stockfishReady = FALSE
    /\ sent = InitCommands
    /\ timers = [ask |-> 0, enable |-> 0]
    /\ engine = [uci |-> TRUE, go |-> 0]
    /\ currentSettings = defaultSettings
    /\ overlay = NoOverlay
    /\ settings = defaultSettings
    /\ mounted = FALSE
    /\ applied = <<>>
    /\ ret = NoReturn
    /\ uncaught = FALSE

InitGeom ==
    /\ \E p \in SubjectPieces : grid = put(EmptyGrid, p)
    /\ geo = NoQuery
    /\ InitRest

NextGeom ==
    \/ \E p \in ExtraPieces : PlaceExtra(p)
    \/ \E p \in boardPieces(grid) : QueryPiece(p)
    \/ \E sq \in {NoSquare} \cup {p.square : p \in boardPieces(grid)} : QueryMap(sq)

SpecGeom == InitGeom /\ [][NextGeom]_vars

(***************************************************************************)
(* Geometry, stated without the loops: the rays of chess.                  *)
(***************************************************************************)
DiagonalDirs == {<<df, dr>> : df \in {-1, 1}, dr \in {-1, 1}}
StraightDirs == {<<-1, 0>>, <<1, 0>>, <<0, -1>>, <<0, 1>>}

RayDirs(type) ==
    CASE type = "b" -> DiagonalDirs
      [] type = "r" -> StraightDirs
      [] type = "q" -> DiagonalDirs \cup StraightDirs
      [] OTHER -> {}

\* sq lies k steps from src in direction d
StepsFrom(src, d, k, sq) ==
    /\ fileOf(sq) = fileOf(src) + k * d[1]
    /\ rankOf(sq) = rankOf(src) + k * d[2]

OnRay(src, d, sq) == \E k \in 1..(BoardSize - 1) : StepsFrom(src, d, k, sq)

Occupied(boardGrid, sq) == at(boardGrid, sq) # None

\* the k-th step from src in direction d stays on the board
StepOnBoard(src, d, k) ==
    /\ fileOf(src) + k * d[1] \in 0..(BoardSize - 1)
    /\ rankOf(src) + k * d[2] \in 0..(BoardSize - 1)

\* the k-th step from src in direction d is an occupied square of the board
StepOccupied(boardGrid, src, d, k) ==
    /\ StepOnBoard(src, d, k)
    /\ boardGrid[7 - (rankOf(src) + k * d[2])][fileOf(src) + k * d[1]] # None

\* the squares of the ray from src in direction d: every square of the board in
\* that direction with no occupied square strictly between it and src
RaySquares(boardGrid, src, d) ==
    LET reach == {k \in 1..(BoardSize - 1) :
                    /\ StepOnBoard(src, d, k)
                    /\ \A j \in 1..(k - 1) : ~StepOccupied(boardGrid, src, d, j)}
    IN  {sq \in Squares : \E k \in reach : StepsFrom(src, d, k, sq)}

SlidingQuery == geo.fn = "piece" /\ geo.piece.type \in SlidingTypes

\* the squares getPieceAttacks returned in direction d of the queried piece
AttacksOn(d) == {sq \in Range(geo.attacks) : OnRay(geo.piece.square, d, sq)}

\* C1: for a bishop, rook or queen, the squares returned in each ray direction of
\* the type are exactly the squares from the source up to and including the first
\* occupied square, or up to the board edge; nothing else is returned.
C1_SlidingRays ==
    SlidingQuery =>
        /\ \A d \in RayDirs(geo.piece.type) :
              AttacksOn(d) = RaySquares(grid, geo.piece.square, d)
        /\ \A sq \in Range(geo.attacks) :
              \E d \in RayDirs(geo.piece.type) : OnRay(geo.piece.square, d, sq)

\* rook a1 with only a pawn on a2: a2 is returned, a3 is not, h1 is
C1_Witness ==
    /\ geo.fn = "piece"
    /\ geo.piece = Piece("r", "w", <<"a", "1">>)
    /\ boardPieces(grid) = {geo.piece, Piece("p", "w", <<"a", "2">>)}
    /\ Range(geo.attacks) = {<<"a", "2">>} \cup {<<FileChars[i], "1">> : i \in 2..BoardSize}

\* the last square getPieceAttacks returned in direction d
LastOn(d) ==
    LET idx == {i \in 1..Len(geo.attacks) : OnRay(geo.piece.square, d, geo.attacks[i])}
    IN  geo.attacks[CHOOSE i \in idx : \A j \in idx : j <= i]

EndpointsOn(d) ==
    {i \in 1..Len(geo.endpoints) : OnRay(geo.piece.square, d, geo.endpoints[i])}

\* C2 as stated: getSlidingRayEndpoints returns one square for each ray direction
\* of the type, 4 for a bishop or a rook and 8 for a queen.
C2_OnePerDirection ==
    SlidingQuery => Len(geo.endpoints) = Cardinality(RayDirs(geo.piece.type))

\* C2, amended: getSlidingRayEndpoints returns one square for each ray direction in
\* which getPieceAttacks returns a square, the last one it returns there, and no
\* square for a direction whose first square is off the board.
C2_EndpointPerNonEmptyRay ==
    SlidingQuery =>
        /\ Len(geo.endpoints) =
              Cardinality({d \in RayDirs(geo.piece.type) : AttacksOn(d) # {}})
        /\ \A d \in RayDirs(geo.piece.type) :
              IF AttacksOn(d) = {} THEN EndpointsOn(d) = {}
              ELSE /\ Cardinality(EndpointsOn(d)) = 1
                   /\ \A i \in EndpointsOn(d) : geo.endpoints[i] = LastOn(d)
        /\ \A i \in 1..Len(geo.endpoints) :
              \E d \in RayDirs(geo.piece.type) : i \in EndpointsOn(d)

\* queen a1 behind a pawn on a2 and a bishop on d4: three rays, ending on a2, h1, d4
C2_Witness ==
    /\ geo.fn = "piece"
    /\ geo.piece = Piece("q", "w", <<"a", "1">>)
    /\ Occupied(grid, <<"a", "2">>)
    /\ Occupied(grid, <<"d", "4">>)
    /\ Len(geo.endpoints) = 3
    /\ Range(geo.endpoints) = {<<"a", "2">>, <<"h", "1">>, <<"d", "4">>}

\* the pieces of the board that the index counts, read off the squares
IndexedPieces(boardGrid, excludeSquare) ==
    {at(boardGrid, sq) : sq \in {s \in Squares : Occupied(boardGrid, s)} \ {excludeSquare}}

\* <<piece, sq>> for every counted piece and every square its attacks contain
Attacking(boardGrid, excludeSquare) ==
    UNION { {<<p, sq>> : sq \in Range(getPieceAttacks(boardGrid, p.type, p.color, p.square))} :
            p \in IndexedPieces(boardGrid, excludeSquare) }

\* C3: a square has an entry in the map of getAttackerMap iff a piece other than
\* the excluded one attacks it; the entry's sets are the types of the white and of
\* the black such attackers; no entry has both sets empty.
C3_AttackerIndex ==
    geo.fn = "map" =>
        LET attacking == Attacking(grid, geo.excludeSquare)
            types(color, sq) ==
                {a[1].type : a \in {x \in attacking : x[2] = sq /\ x[1].color = color}}
        IN  /\ \A sq \in Squares :
                  sq \in DOMAIN geo.map <=> \E a \in attacking : a[2] = sq
            /\ \A sq \in DOMAIN geo.map :
                  /\ geo.map[sq].w = types("w", sq)
                  /\ geo.map[sq].b = types("b", sq)
                  /\ geo.map[sq].w \cup geo.map[sq].b # {}

\* an index built with a piece excluded, with a contested square in it and a
\* square only the excluded piece attacks left out
C3_Witness ==
    /\ geo.fn = "map"
    /\ geo.excludeSquare # NoSquare
    /\ Occupied(grid, geo.excludeSquare)
    /\ \E sq \in DOMAIN geo.map : geo.map[sq].w # {} /\ geo.map[sq].b # {}
    /\ \E sq \in Squares \ DOMAIN geo.map :
          LET p == at(grid, geo.excludeSquare)
          IN  sq \in Range(getPieceAttacks(grid, p.type, p.color, p.square))

(***************************************************************************)
(* The rules engine, as far as the session reads it.  Its moves are the    *)
(* moves of the pieces on the grid (pushes and captures of the pawn, leaps *)
(* of the knight, steps of the king, rays of the sliding pieces) by the    *)
(* side to move; pins, castling and en passant are left out.  Its verdict  *)
(* on a position (check, checkmate, stalemate, another draw) is not        *)
(* derived from the grid: any verdict may follow a move.                   *)
(***************************************************************************)
Verdicts == {"", "check", "checkmate", "stalemate", "draw"}

isCheckmate(v) == v = "checkmate"
isStalemate(v) == v = "stalemate"
isCheck(v) == v \in {"check", "checkmate"}
isGameOver(v) == v \in {"checkmate", "stalemate", "draw"}

KnightLeaps == {<<df, dr>> \in {-2, -1, 1, 2} \X {-2, -1, 1, 2} : df * df + dr * dr = 5}
KingSteps == DiagonalDirs \cup StraightDirs

\* the squares one step of d away from src
StepTo(src, d) == {sq \in Squares : StepsFrom(src, d, 1, sq)}

pawnTargets(boardGrid, p) ==
    LET dir == IF p.color = "w" THEN 1 ELSE -1
        home == IF p.color = "w" THEN 1 ELSE 6
        one == {sq \in StepTo(p.square, <<0, dir>>) : ~Occupied(boardGrid, sq)}
        two == {sq \in Squares : /\ one # {}
                                 /\ rankOf(p.square) = home
                                 /\ StepsFrom(p.square, <<0, dir>>, 2, sq)
                                 /\ ~Occupied(boardGrid, sq)}
        takes == {sq \in StepTo(p.square, <<-1, dir>>) \cup StepTo(p.square, <<1, dir>>) :
                     Occupied(boardGrid, sq) /\ at(boardGrid, sq).color # p.color}
    IN  one \cup two \cup takes

pieceTargets(boardGrid, p) ==
    LET reach == CASE p.type = "n" -> UNION {StepTo(p.square, d) : d \in KnightLeaps}
                   [] p.type = "k" -> UNION {StepTo(p.square, d) : d \in KingSteps}
                   [] OTHER -> UNION {RaySquares(boardGrid, p.square, d) : d \in RayDirs(p.type)}
    IN  {sq \in reach : at(boardGrid, sq).color # p.color}

\* chess.moves({ square, verbose: true }): the destinations m.to
chessMoves(boardGrid, sideToMove, v, from) ==
    IF from \notin Squares THEN {}
    ELSE LET p == at(boardGrid, from)
         IN  IF p = None \/ p.color # sideToMove \/ isCheckmate(v) \/ isStalemate(v) THEN {}
             ELSE IF p.type = "p" THEN pawnTargets(boardGrid, p)
             ELSE pieceTargets(boardGrid, p)

\* chess.move({ from, to, promotion }) succeeds; it throws otherwise
chessLegal(boardGrid, sideToMove, v, from, to) ==
    to \in chessMoves(boardGrid, sideToMove, v, from)

\* the grid after chess.move: a pawn reaching the last rank becomes the promotion
\* piece, a queen when none is named
chessMoved(boardGrid, from, to, promotion) ==
    LET p == at(boardGrid, from)
        type == IF p.type = "p" /\ rankOf(to) \in {0, 7}
                THEN (IF promotion \in {"n", "b", "r", "q"} THEN promotion ELSE "q")
                ELSE p.type
        cleared == [boardGrid EXCEPT ![7 - rankOf(from)][fileOf(from)] = None]
    IN  put(cleared, Piece(type, p.color, to))

otherSide(sideToMove) == IF sideToMove = "w" THEN "b" ELSE "w"

\* chess.fen(): the placement and the side to move
fen(boardGrid, sideToMove) == [grid |-> boardGrid, turn |-> sideToMove]

(***************************************************************************)
(* The session: the functions of initOverchess.                            *)
(***************************************************************************)
\* updateInfo naming the side to move as the winner
updateInfoMoverWins(sideToMove, v) ==
    IF isGameOver(v)
    THEN [turn |-> "",
          status |-> IF isCheckmate(v)
                     THEN (IF sideToMove = "w" THEN "Checkmate - White wins"
                                               ELSE "Checkmate - Black wins")
                     ELSE IF isStalemate(v) THEN "Stalemate - draw" ELSE "Draw"]
    ELSE [turn |-> IF sideToMove = "w" THEN "Your turn (White)" ELSE "Stockfish thinking",
          status |-> IF isCheck(v) THEN "Check" ELSE ""]

\* updateInfo: the two texts
updateInfo(sideToMove, v) ==
    IF isGameOver(v)
    THEN [turn |-> "",
          status |-> IF isCheckmate(v)
                     THEN (IF sideToMove = "w" THEN "Checkmate - Black wins"
                                               ELSE "Checkmate - White wins")
                     ELSE IF isStalemate(v) THEN "Stalemate - draw" ELSE "Draw"]
    ELSE [turn |-> IF sideToMove = "w" THEN "Your turn (White)" ELSE "Stockfish thinking",
          status |-> IF isCheck(v) THEN "Check" ELSE ""]

\* enableInput testing for black's turn
enableInputBlack(sideToMove) == sideToMove = "b"

\* enableInput: input is disabled, then enabled for white when white is to move
enableInput(sideToMove) == sideToMove = "w"

(***************************************************************************)
(* The renderer.  A layer is the bag of the elements appended to its group *)
(* (the claims read a layer up to the order of its elements); an element   *)
(* is the record of its tag and attributes.  Lengths are in thousandths of *)
(* a square: the viewBox is 8 by 8 and the helpers place elements at       *)
(* offsets such as 0.05 and 0.175.                                         *)
(***************************************************************************)
Unit == 1000

PIECE_COLOR(t) ==
    CASE t = "p" -> "#b088ff"
      [] t = "n" -> "#00d4ff"
      [] t = "b" -> "#00d4ff"
      [] t = "r" -> "#ff00cc"
      [] t = "q" -> "#ff00cc"
      [] t = "k" -> "#ffe500"

BLACK_COLOR == "#b5412d"

\* colorToMarkerId[color] ?? 'arrow-brown'
colorToMarkerId(color) ==
    CASE color = "#b088ff" -> "arrow-purple"
      [] color = "#00d4ff" -> "arrow-cyan"
      [] color = "#ff00cc" -> "arrow-magenta"
      [] color = "#ffe500" -> "arrow-yellow"
      [] OTHER -> "arrow-brown"

squareCenter(sq) ==
    [cx |-> squareToXY(sq).x * Unit + 500, cy |-> squareToXY(sq).y * Unit + 500]

\* the layer a set of appendChild calls builds: drawn holds <<call, element>> for
\* each call, and an element is in the layer once for each call that appends it
Appended(drawn) ==
    [e \in {d[2] : d \in drawn} |-> Cardinality({d \in drawn : d[2] = e})]

Min(S) == CHOOSE m \in S : \A n \in S : m <= n

\* the while loops of updateOverlay leaving the children in the group
removeAllKeeps(layer) == layer

\* while (group.firstChild) group.removeChild(group.firstChild)
removeAll(layer) == layer (-) layer

\* fillOf without the hatch: a square white attacks is green
fillOfNoHatch(entry) ==
    IF entry.w # {} THEN "rgba(80,200,80,0.35)" ELSE "rgba(220,60,60,0.35)"

\* the fill of a square: the hatch when both sides attack it
fillOf(entry) ==
    IF entry.w # {} /\ entry.b # {} THEN "url(#hatch-both)"
    ELSE IF entry.w # {} THEN "rgba(80,200,80,0.35)"
    ELSE "rgba(220,60,60,0.35)"

\* the fill pass: one rect for every entry of the map with an attacker
fillPass(attackerMap) ==
    Appended({<<sq, [tag |-> "rect",
                     x |-> squareToXY(sq).x * Unit, y |-> squareToXY(sq).y * Unit,
                     width |-> Unit, height |-> Unit,
                     fill |-> fillOf(attackerMap[sq])]>> :
              sq \in {q \in DOMAIN attackerMap :
                         attackerMap[q].w # {} \/ attackerMap[q].b # {}}})

\* the place of a piece in the two for loops over chess.board()
scanIndex(p) == (7 - rankOf(p.square)) * BoardSize + fileOf(p.square)

\* the add calls of getAttackerMap with their place in the loops:
\* <<sq, color, type, place of the piece>>
attackerInserts(boardGrid, excludeSquare) ==
    UNION { {<<sq, piece.color, piece.type, scanIndex(piece)>> :
                sq \in Range(getPieceAttacks(boardGrid, piece.type, piece.color, piece.square))} :
            piece \in {p \in boardPieces(boardGrid) : p.square # excludeSquare} }

\* [...w] of the entry of sq: a type stands where its first add put it
typesInOrder(inserts, sq, color) ==
    LET mine == {a \in inserts : a[1] = sq /\ a[2] = color}
        types == {a[3] : a \in mine}
        first(t) == Min({a[4] : a \in {x \in mine : x[3] = t}})
    IN  [i \in 1..Cardinality(types) |->
            CHOOSE t \in types : Cardinality({u \in types : first(u) < first(t)}) = i - 1]

\* the colours passed on as they are, a colour once for each type that has it
uniqueKeepsAll(colors) == colors

\* [...new Set(colors)]: the first occurrence of each colour, in order
unique(colors) ==
    LET firsts == {i \in 1..Len(colors) : \A j \in 1..(i - 1) : colors[j] # colors[i]}
    IN  [k \in 1..Cardinality(firsts) |->
            colors[CHOOSE i \in firsts : Cardinality({j \in firsts : j < i}) = k - 1]]

\* the i-th rect of drawMultiColorOutline(x, y, colors), i counted from 0
drawMultiColorOutline(x, y, colors, i) ==
    [tag |-> "rect", x |-> x + 50, y |-> y + 50,
     width |-> Unit - 2 * 50, height |-> Unit - 2 * 50,
     fill |-> "none", stroke |-> colors[i + 1],
     dasharray |-> <<150, (Len(colors) - 1) * 150>>, dashoffset |-> -i * 150]

\* drawBadge appends a circle, then a text
drawBadge(x, y, count, bg, fg, corner, tag) ==
    LET cx == IF corner = "tl" THEN x + 160 + 40 ELSE x + Unit - 160 - 40
        cy == y + 160 + 40
    IN  IF tag = "circle"
        THEN [tag |-> "circle", cx |-> cx, cy |-> cy, r |-> 160, fill |-> bg]
        ELSE [tag |-> "text", x |-> cx, y |-> cy, fill |-> fg, textContent |-> count]

drawArrow(x1, y1, x2, y2, color) ==
    [tag |-> "line", x1 |-> x1, y1 |-> y1, x2 |-> x2, y2 |-> y2, stroke |-> color,
     markerEnd |-> colorToMarkerId(color)]

drawKnightCircle(sq, color) ==
    [tag |-> "circle", cx |-> squareCenter(sq).cx, cy |-> squareCenter(sq).cy, r |-> 175,
     fill |-> "none", stroke |-> color]

drawKingSquare(sq, color) ==
    [tag |-> "rect", x |-> squareCenter(sq).cx - 150, y |-> squareCenter(sq).cy - 150,
     width |-> 300, height |-> 300, fill |-> "none", stroke |-> color]

\* the side filter of updateOverlay: showW hides white, nothing hides black
shows(s, color) ==
    IF color = "w" THEN s.side # "black" ELSE TRUE

\* style 'squares': outlines and badges of every entry of the map
squaresPass(s, boardGrid, excludeSquare, attackerMap) ==
    LET inserts == attackerInserts(boardGrid, excludeSquare)
        X(sq) == squareToXY(sq).x * Unit
        Y(sq) == squareToXY(sq).y * Unit
        outlines ==
            UNION { LET w == typesInOrder(inserts, sq, "w")
                        colors == unique((IF shows(s, "w")
                                          THEN [i \in 1..Len(w) |-> PIECE_COLOR(w[i])]
                                          ELSE <<>>)
                                         \o (IF attackerMap[sq].b # {} /\ shows(s, "b")
                                             THEN <<BLACK_COLOR>> ELSE <<>>))
                    IN  {<<<<sq, i>>, drawMultiColorOutline(X(sq), Y(sq), colors, i)>> :
                            i \in 0..(Len(colors) - 1)} :
                    sq \in DOMAIN attackerMap }
        contested == {sq \in DOMAIN attackerMap :
                         attackerMap[sq].w # {} /\ attackerMap[sq].b # {}}
        badges ==
            {<<<<sq, "tl", tag>>,
               drawBadge(X(sq), Y(sq), Cardinality(attackerMap[sq].w),
                         "#ffffff", "#111111", "tl", tag)>> :
                sq \in {q \in contested : shows(s, "w")}, tag \in {"circle", "text"}}
            \cup
            {<<<<sq, "tr", tag>>,
               drawBadge(X(sq), Y(sq), Cardinality(attackerMap[sq].b),
                         "#111111", "#ffffff", "tr", tag)>> :
                sq \in {q \in contested : shows(s, "b")}, tag \in {"circle", "text"}}
    IN  Appended(outlines \cup badges)

\* the glyph of arrows mode for the square sq that piece p attacks
glyph(p, sq) ==
    LET strokeColor == IF p.color = "b" THEN BLACK_COLOR ELSE PIECE_COLOR(p.type)
    IN  CASE p.type = "n" -> drawKnightCircle(sq, strokeColor)
          [] p.type = "k" -> drawKingSquare(sq, strokeColor)
          [] OTHER -> drawArrow(squareCenter(p.square).cx, squareCenter(p.square).cy,
                                squareCenter(sq).cx, squareCenter(sq).cy, strokeColor)

\* arrows mode drawing a sliding piece's glyph on every square of its attacks
arrowsPassEverySquare(s, boardGrid, excludeSquare) ==
    Appended(
        UNION { LET targets == getPieceAttacks(boardGrid, p.type, p.color, p.square)
                IN  {<<<<p.square, i>>, glyph(p, targets[i])>> : i \in 1..Len(targets)} :
                p \in {q \in boardPieces(boardGrid) :
                          q.square # excludeSquare /\ shows(s, q.color)} })

\* style 'arrows': a glyph for every attacked square of every piece drawn
arrowsPass(s, boardGrid, excludeSquare) ==
    Appended(
        UNION { LET targets == IF p.type \in {"n", "k", "p"}
                               THEN getPieceAttacks(boardGrid, p.type, p.color, p.square)
                               ELSE getSlidingRayEndpoints(boardGrid, p.type, p.color, p.square)
                IN  {<<<<p.square, i>>, glyph(p, targets[i])>> : i \in 1..Len(targets)} :
                p \in {q \in boardPieces(boardGrid) :
                          q.square # excludeSquare /\ shows(s, q.color)} })

\* updateOverlay updating the attacker map of the call before instead of building
\* a fresh one: the types of an entry are only ever added to
updateOverlayIncremental(prev, s, boardGrid, excludeSquare) ==
    LET fresh == getAttackerMap(boardGrid, excludeSquare)
        old(sq) == IF sq \in DOMAIN prev.index THEN prev.index[sq] ELSE NewEntry
        new(sq) == IF sq \in DOMAIN fresh THEN fresh[sq] ELSE NewEntry
        attackerMap == [sq \in DOMAIN prev.index \cup DOMAIN fresh |->
                           [w |-> old(sq).w \cup new(sq).w, b |-> old(sq).b \cup new(sq).b]]
    IN  [rendered |-> TRUE, excludeSquare |-> excludeSquare, index |-> attackerMap,
         fills |-> removeAll(prev.fills) (+) fillPass(attackerMap),
         outlines |-> removeAll(prev.outlines) (+)
                      (IF s.style = "squares"
                       THEN squaresPass(s, boardGrid, excludeSquare, attackerMap)
                       ELSE arrowsPass(s, boardGrid, excludeSquare))]

\* updateOverlay(settings, excludeSquare): both groups are emptied, then the fills
\* and the outlines of a fresh attacker map are appended to them
updateOverlay(prev, s, boardGrid, excludeSquare) ==
    LET attackerMap == getAttackerMap(boardGrid, excludeSquare)
    IN  [rendered |-> TRUE, excludeSquare |-> excludeSquare, index |-> attackerMap,
         fills |-> removeAll(prev.fills) (+) fillPass(attackerMap),
         outlines |-> removeAll(prev.outlines) (+)
                      (IF s.style = "squares"
                       THEN squaresPass(s, boardGrid, excludeSquare, attackerMap)
                       ELSE arrowsPass(s, boardGrid, excludeSquare))]

\* askStockfish without its test of stockfishReady
askStockfishUnready(ready, posted, position) ==
    posted \o <<[cmd |-> "position fen", fen |-> position], Command("go movetime 500")>>

\* askStockfish: the commands posted to the worker after the call
askStockfish(ready, posted, position) ==
    IF ~ready THEN posted
    ELSE posted \o <<[cmd |-> "position fen", fen |-> position], Command("go movetime 500")>>

goCount(posted) == Cardinality({i \in 1..Len(posted) : posted[i].cmd = "go movetime 500"})

\* moveInputStarted accepting every piece
startedAcceptsAll(moves) == TRUE

\* moveInputStarted refusing every piece
startedAcceptsNone(moves) == FALSE

\* moveInputStarted: return moves.length > 0
startedAccepts(moves) == moves # {}

\* validateMoveInput leaving the input enabled after a move
validateInputNoDisable(enabled, result, gameOver) == enabled

\* validateMoveInput disabling the input before it looks at the result
validateInputDisableFirst(enabled, result, gameOver) ==
    IF ~gameOver THEN FALSE ELSE enabled

\* validateMoveInput: board.disableMoveInput() after a move that leaves the game on
validateInput(enabled, result, gameOver) ==
    IF result /\ ~gameOver THEN FALSE ELSE enabled

\* validateMoveInput never asking the engine
validateTimersNoAsk(pending, result, gameOver) == pending

\* validateMoveInput asking the engine before it looks at the result
validateTimersAskFirst(pending, result, gameOver) ==
    IF ~gameOver THEN [pending EXCEPT !.ask = @ + 1] ELSE pending

\* validateMoveInput: setTimeout(() => askStockfish(), 300) after such a move
validateTimers(pending, result, gameOver) ==
    IF result /\ ~gameOver THEN [pending EXCEPT !.ask = @ + 1] ELSE pending

\* applyStockfishMove with its setTimeout after the try block
applyTimersAfterTry(pending, moved, gameOver) ==
    IF ~gameOver THEN [pending EXCEPT !.enable = @ + 1] ELSE pending

\* applyStockfishMove starting its timer without asking whether the game is over
applyTimersGameOver(pending, moved, gameOver) ==
    IF moved THEN [pending EXCEPT !.enable = @ + 1] ELSE pending

\* applyStockfishMove: setTimeout(() => enableInput(), 350) when the move went
\* through and the game is not over
applyTimers(pending, moved, gameOver) ==
    IF moved /\ ~gameOver THEN [pending EXCEPT !.enable = @ + 1] ELSE pending

\* an exception leaves the handler unless a try block around the call catches it
escapes(threw, inTry) == threw /\ ~inTry

\* uciMove.slice(a, b)
slice(str, a, b) ==
    IF a >= Len(str) THEN <<>>
    ELSE SubSeq(str, a + 1, IF b < Len(str) THEN b ELSE Len(str))

\* uciMove[4] ?? undefined
charAt(str, i) == IF i < Len(str) THEN str[i + 1] ELSE ""

(***************************************************************************)
(* The inputs of the session specification.                                *)
(***************************************************************************)
\* the squares the human picks a piece up from, and drops it on
FromSquares == {<<"e", "2">>, <<"g", "1">>, <<"e", "1">>, <<"e", "4">>}
ToSquares == {<<"e", "4">>, <<"f", "3">>, <<"e", "5">>, <<"d", "5">>}

\* '(none)', the engine's word for no move
NoneToken == <<"(", "n", "o", "n", "e", ")">>

\* the second word of the engine's bestmove lines
MoveTokens ==
    { <<"e", "7", "e", "5">>, <<"d", "7", "d", "5">>, <<"e", "2", "e", "4">>,
      <<"z", "z">>, NoneToken }

\* the lines the engine sends
Messages ==
    {<<"uciok">>, <<"readyok">>, <<"bestmove">>} \cup {<<"bestmove", t>> : t \in MoveTokens}

SettingsValues == [side : {"white", "black", "both"}, style : {"squares", "arrows"}]

(***************************************************************************)
(* The actions of the session.                                             *)
(***************************************************************************)
\* the shell's onMount: enableInput(), updateInfo(), updateOverlay(settings)
ShellMount ==
    /\ ~mounted
    /\ mounted' = TRUE
    /\ inputEnabled' = enableInput(turn)
    /\ dragFrom' = NoSquare
    /\ turnText' = updateInfo(turn, verdict).turn
    /\ statusText' = updateInfo(turn, verdict).status
    /\ currentSettings' = settings
    /\ overlay' = updateOverlay(overlay, settings, grid, NoSquare)
    /\ UNCHANGED <<chessVars, shown, markers, engineVars, settings, logVars, geo>>

\* the user changes a setting; the shell's $effect re-renders once it has the api
ShellSettings(s) ==
    /\ s # settings
    /\ settings' = s
    /\ IF mounted
       THEN /\ currentSettings' = s
            /\ overlay' = updateOverlay(overlay, s, grid, NoSquare)
       ELSE UNCHANGED overlayVars
    /\ UNCHANGED <<chessVars, widgetVars, engineVars, mounted, logVars, geo>>

\* inputHandler, moveInputStarted: the human picks up the white piece on sq
MoveInputStarted(sq) ==
    /\ inputEnabled
    /\ dragFrom = NoSquare
    /\ Occupied(grid, sq)
    /\ at(grid, sq).color = "w"
    /\ LET moves == chessMoves(grid, turn, verdict, sq)
       IN  /\ markers' = moves
           /\ overlay' = IF moves # {} THEN updateOverlay(overlay, currentSettings, grid, sq)
                         ELSE overlay
           /\ ret' = [type |-> "moveInputStarted", value |-> startedAccepts(moves)]
           /\ dragFrom' = IF startedAccepts(moves) THEN sq ELSE NoSquare
    /\ UNCHANGED <<chessVars, shown, inputEnabled, turnText, statusText, engineVars,
                   currentSettings, shellVars, applied, uncaught, geo>>

\* inputHandler, validateMoveInput: the human drops the piece on to
ValidateMoveInput(to) ==
    /\ inputEnabled
    /\ dragFrom # NoSquare
    /\ to # dragFrom
    /\ markers' = {}
    /\ dragFrom' = NoSquare
    /\ IF chessLegal(grid, turn, verdict, dragFrom, to)
       THEN /\ Len(applied) < MaxPlies
            /\ \E v \in Verdicts :
                  /\ grid' = chessMoved(grid, dragFrom, to, "q")
                  /\ turn' = otherSide(turn)
                  /\ verdict' = v
                  /\ inputEnabled' = validateInput(inputEnabled, TRUE, isGameOver(v))
                  /\ timers' = validateTimers(timers, TRUE, isGameOver(v))
            /\ shown' = grid'
            /\ turnText' = updateInfo(turn', verdict').turn
            /\ statusText' = updateInfo(turn', verdict').status
            /\ overlay' = updateOverlay(updateOverlay(overlay, currentSettings, grid, NoSquare),
                                        currentSettings, grid', NoSquare)
            /\ applied' = Append(applied, [by |-> "human", from |-> dragFrom, to |-> to])
            /\ ret' = [type |-> "validateMoveInput", value |-> TRUE]
       ELSE /\ overlay' = updateOverlay(overlay, currentSettings, grid, NoSquare)
            /\ inputEnabled' = validateInput(inputEnabled, FALSE, isGameOver(verdict))
            /\ timers' = validateTimers(timers, FALSE, isGameOver(verdict))
            /\ ret' = [type |-> "validateMoveInput", value |-> FALSE]
            /\ UNCHANGED <<chessVars, shown, turnText, statusText, applied>>
    /\ uncaught' = (uncaught \/ escapes(~chessLegal(grid, turn, verdict, dragFrom, to), TRUE))
    /\ UNCHANGED <<stockfishReady, sent, engine, currentSettings, shellVars, geo>>

\* moveInputCanceled without its updateOverlay call
MoveInputCanceledNoRender ==
    /\ inputEnabled
    /\ dragFrom # NoSquare
    /\ markers' = {}
    /\ dragFrom' = NoSquare
    /\ ret' = [type |-> "moveInputCanceled", value |-> TRUE]
    /\ UNCHANGED <<chessVars, shown, inputEnabled, turnText, statusText, engineVars,
                   overlayVars, shellVars, applied, uncaught, geo>>

\* moveInputCanceled calling updateOverlay(defaultSettings)
MoveInputCanceledDefaults ==
    /\ inputEnabled
    /\ dragFrom # NoSquare
    /\ markers' = {}
    /\ dragFrom' = NoSquare
    /\ currentSettings' = defaultSettings
    /\ overlay' = updateOverlay(overlay, defaultSettings, grid, NoSquare)
    /\ ret' = [type |-> "moveInputCanceled", value |-> TRUE]
    /\ UNCHANGED <<chessVars, shown, inputEnabled, turnText, statusText, engineVars,
                   shellVars, applied, uncaught, geo>>

\* inputHandler, moveInputCanceled: the human lets the piece go
MoveInputCanceled ==
    /\ inputEnabled
    /\ dragFrom # NoSquare
    /\ markers' = {}
    /\ dragFrom' = NoSquare
    /\ overlay' = updateOverlay(overlay, currentSettings, grid, NoSquare)
    /\ ret' = [type |-> "moveInputCanceled", value |-> TRUE]
    /\ UNCHANGED <<chessVars, shown, inputEnabled, turnText, statusText, engineVars,
                   currentSettings, shellVars, applied, uncaught, geo>>

\* the timer of validateMoveInput expires: askStockfish()
TimerAsk ==
    /\ timers.ask > 0
    /\ timers' = [timers EXCEPT !.ask = @ - 1]
    /\ sent' = askStockfish(stockfishReady, sent, fen(grid, turn))
    /\ engine' = [engine EXCEPT !.go = @ + goCount(sent') - goCount(sent)]
    /\ UNCHANGED <<chessVars, widgetVars, stockfishReady, overlayVars, shellVars,
                   logVars, geo>>

\* the timer of applyStockfishMove expires: enableInput()
TimerEnable ==
    /\ timers.enable > 0
    /\ timers' = [timers EXCEPT !.enable = @ - 1]
    /\ inputEnabled' = enableInput(turn)
    /\ dragFrom' = NoSquare
    /\ UNCHANGED <<chessVars, shown, markers, turnText, statusText, stockfishReady,
                   sent, engine, overlayVars, shellVars, logVars, geo>>

\* The engine answers 'uci' with one 'uciok' and each 'go' with one bestmove
\* line; other lines it sends at any time.
engineMaySend(msg) ==
    CASE msg = <<"uciok">> -> engine.uci
      [] msg[1] = "bestmove" -> engine.go > 0
      [] OTHER -> TRUE

engineAfter(msg) ==
    CASE msg = <<"uciok">> -> [engine EXCEPT !.uci = FALSE]
      [] msg[1] = "bestmove" -> [engine EXCEPT !.go = @ - 1]
      [] OTHER -> engine

\* applyStockfishMove(uciMove)
applyStockfishMove(uciMove) ==
    LET from == slice(uciMove, 0, 2)
        to == slice(uciMove, 2, 4)
        promotion == charAt(uciMove, 4)
        moved == chessLegal(grid, turn, verdict, from, to)
    IN  /\ IF moved
           THEN /\ Len(applied) < MaxPlies
                /\ \E v \in Verdicts :
                      /\ grid' = chessMoved(grid, from, to, promotion)
                      /\ turn' = otherSide(turn)
                      /\ verdict' = v
                      /\ timers' = applyTimers(timers, TRUE, isGameOver(v))
                /\ shown' = grid'
                /\ turnText' = updateInfo(turn', verdict').turn
                /\ statusText' = updateInfo(turn', verdict').status
                /\ overlay' = updateOverlay(overlay, currentSettings, grid', NoSquare)
                /\ applied' = Append(applied, [by |-> "engine", from |-> from, to |-> to])
           ELSE /\ timers' = applyTimers(timers, FALSE, isGameOver(verdict))
                /\ UNCHANGED <<chessVars, shown, turnText, statusText, overlay, applied>>
        /\ uncaught' = (uncaught \/ escapes(~moved, TRUE))

\* the listener taking 'readyok' for the handshake reply as well
listenerReadyOnReadyok(ready, msg) == ready \/ msg \in {<<"uciok">>, <<"readyok">>}

\* if (msg === 'uciok') stockfishReady = true
listenerReady(ready, msg) == ready \/ msg = <<"uciok">>

\* the worker's message listener
WorkerMessage(msg) ==
    /\ engineMaySend(msg)
    /\ engine' = engineAfter(msg)
    /\ stockfishReady' = listenerReady(stockfishReady, msg)
    /\ IF msg[1] = "bestmove"
       THEN LET move == IF Len(msg) >= 2 THEN msg[2] ELSE <<>>
            IN  IF move = <<>> \/ move = NoneToken
                THEN UNCHANGED <<chessVars, shown, turnText, statusText, overlay, applied,
                                 timers, uncaught>>
                ELSE applyStockfishMove(move)
       ELSE UNCHANGED <<chessVars, shown, turnText, statusText, overlay, applied,
                        timers, uncaught>>
    /\ UNCHANGED <<inputEnabled, dragFrom, markers, sent, currentSettings, shellVars,
                   ret, geo>>

Init ==
    /\ grid = StartGrid
    /\ geo = NoQuery
    /\ InitRest

Next ==
    \/ ShellMount
    \/ \E s \in SettingsValues : ShellSettings(s)
    \/ \E sq \in FromSquares : MoveInputStarted(sq)
    \/ \E to \in ToSquares : ValidateMoveInput(to)
    \/ MoveInputCanceled
    \/ TimerAsk
    \/ TimerEnable
    \/ \E msg \in Messages : WorkerMessage(msg)

Spec == Init /\ [][Next]_vars

(***************************************************************************)
(* The session's claims.                                                   *)
(***************************************************************************)
LastApplied == applied[Len(applied)]

\* the step applies a human move
HumanMoved ==
    /\ Len(applied') = Len(applied) + 1
    /\ applied'[Len(applied')].by = "human"

\* the step is the expiry of the timer of validateMoveInput
AskTimerFired == timers'.ask < timers.ask

\* the request for the position of the state: the position, then the search
Request == <<[cmd |-> "position fen", fen |-> fen(grid, turn)], Command("go movetime 500")>>

engineMoves(moves) == Cardinality({i \in 1..Len(moves) : moves[i].by = "engine"})

\* C4 as stated: a human move that leaves the game on disables the input and
\* starts the timer, and when the timer expires the position and the search
\* command are posted to the engine.
C4_RequestAfterEveryMove ==
    [][ /\ (HumanMoved /\ ~isGameOver(verdict')) =>
              (~inputEnabled' /\ timers'.ask = timers.ask + 1)
        /\ AskTimerFired => sent' = sent \o Request ]_vars

\* C4, amended: a human move that leaves the game on disables the input and
\* starts the timer; when the timer expires the position and the search command
\* are posted if the engine proxy is ready, and nothing is posted if it is not.
C4_RequestWhenReady ==
    [][ /\ (HumanMoved /\ ~isGameOver(verdict')) =>
              (~inputEnabled' /\ timers'.ask = timers.ask + 1)
        /\ AskTimerFired =>
              sent' = IF stockfishReady THEN sent \o Request ELSE sent ]_vars

\* the request for the position after the first human move has been posted
C4_Witness ==
    /\ Len(applied) = 1
    /\ ~isGameOver(verdict)
    /\ ~inputEnabled
    /\ timers.ask = 0
    /\ sent = InitCommands \o Request

\* C5: while the engine proxy is not ready no position and no search command has
\* been posted, and an askStockfish call changes nothing of the session.
C5_NoRequestUntilReady ==
    /\ [](~stockfishReady => sent = InitCommands)
    /\ [][ (AskTimerFired /\ ~stockfishReady) =>
              UNCHANGED <<chessVars, widgetVars, stockfishReady, sent, engine,
                          overlayVars, shellVars, logVars>> ]_vars

\* the timer of the first human move has expired before the handshake reply
C5_Witness ==
    /\ ~stockfishReady
    /\ Len(applied) = 1
    /\ ~isGameOver(verdict)
    /\ timers.ask = 0

\* C6: the engine never has more than one request to answer, and a request is
\* posted only when every earlier one has been answered by an applied move.
C6_OneRequestOutstanding ==
    /\ [](engine.go <= 1)
    /\ [][ sent' # sent =>
              (engine.go = 0 /\ goCount(sent) = engineMoves(applied)) ]_vars

\* a second request, posted after the first was answered
C6_Witness ==
    /\ goCount(sent) = 2
    /\ engine.go = 1
    /\ engineMoves(applied) = 1

\* C7: while the session awaits the engine (from a human move that leaves the
\* game on until the engine's move is applied and its timer has expired) the
\* input is disabled; the applied moves alternate, human first; and the input goes
\* from disabled to enabled only with white to move.
C7_MovesAlternate ==
    /\ []( /\ \A i \in 1..Len(applied) :
                applied[i].by = IF i % 2 = 1 THEN "human" ELSE "engine"
           /\ turn = IF Len(applied) % 2 = 0 THEN "w" ELSE "b"
           /\ (Len(applied) % 2 = 1 /\ ~isGameOver(verdict)) => ~inputEnabled
           /\ timers.enable > 0 => ~inputEnabled )
    /\ [][ (~inputEnabled /\ inputEnabled') => (turn = "w" /\ turn' = "w") ]_vars

\* the engine has answered the human's move and the input is enabled again
C7_Witness ==
    /\ Len(applied) = 2
    /\ LastApplied.by = "engine"
    /\ timers.enable = 0
    /\ inputEnabled

\* C8: once the game is over no move input is in progress, none is scheduled or
\* awaited, every move-start is rejected, and no step changes the position or
\* posts a command.
C8_GameOverAbsorbing ==
    /\ [](isGameOver(verdict) =>
            (dragFrom = NoSquare /\ timers.ask = 0 /\ engine.go = 0))
    /\ [][ isGameOver(verdict) =>
              /\ UNCHANGED <<chessVars, shown, applied, sent>>
              /\ \A sq \in FromSquares : MoveInputStarted(sq) => ~ret'.value ]_vars

\* after a checkmate the human has tried to pick up a piece and was refused
C8_Witness ==
    /\ isCheckmate(verdict)
    /\ inputEnabled
    /\ ret = [type |-> "moveInputStarted", value |-> FALSE]

\* C9: a validateMoveInput call whose move the rules engine rejects returns false
\* and leaves the position, the side to move, the texts, the input enablement and
\* the readiness unchanged, and starts no timer.
C9_RejectedMoveNoChange ==
    [][ \A to \in ToSquares :
          (ValidateMoveInput(to) /\ ~chessLegal(grid, turn, verdict, dragFrom, to)) =>
              /\ ret' = [type |-> "validateMoveInput", value |-> FALSE]
              /\ UNCHANGED <<chessVars, shown, turnText, statusText, inputEnabled,
                             engineVars, applied>> ]_vars

\* the first move attempt was rejected: the human may try again
C9_Witness ==
    /\ ret = [type |-> "validateMoveInput", value |-> FALSE]
    /\ applied = <<>>
    /\ inputEnabled
    /\ timers.ask = 0

\* the message makes applyStockfishMove apply a move
Applicable(msg) ==
    /\ msg[1] = "bestmove"
    /\ Len(msg) >= 2
    /\ msg[2] # NoneToken
    /\ chessLegal(grid, turn, verdict, slice(msg[2], 0, 2), slice(msg[2], 2, 4))

\* C10: a message that yields no legal move (not a bestmove line, no second word,
\* '(none)', a move the rules engine rejects) leaves the position, the displayed
\* board, the texts and the overlay unchanged, starts no timer, lets no exception
\* escape, and after a bestmove line the input is still disabled.
C10_NoMoveNoChange ==
    [][ \A msg \in Messages :
          (WorkerMessage(msg) /\ ~Applicable(msg)) =>
              /\ UNCHANGED <<chessVars, shown, turnText, statusText, overlay,
                             timers, inputEnabled, applied>>
              /\ ~uncaught'
              /\ msg[1] = "bestmove" => (~inputEnabled' /\ timers'.enable = 0) ]_vars

\* the engine has answered the only request and no move was applied
C10_Witness ==
    /\ goCount(sent) = 1
    /\ engine.go = 0
    /\ Len(applied) = 1
    /\ ~isGameOver(verdict)
    /\ ~inputEnabled
    /\ timers.enable = 0

\* the step applies an engine move
EngineMoved ==
    /\ Len(applied') = Len(applied) + 1
    /\ applied'[Len(applied')].by = "engine"

\* the step is the expiry of the timer of applyStockfishMove
EnableTimerFired == timers'.enable < timers.enable

\* C11: an applied engine move starts the timer of enableInput iff it leaves the
\* game on; when the timer expires white is to move and the input is enabled; and
\* after an engine move that ends the game the input stays disabled, with no timer
\* pending.
C11_ReenableIffGameContinues ==
    /\ [][ /\ EngineMoved =>
                /\ ~inputEnabled'
                /\ timers'.enable = timers.enable + (IF isGameOver(verdict') THEN 0 ELSE 1)
           /\ EnableTimerFired =>
                (turn = "w" /\ ~isGameOver(verdict) /\ inputEnabled') ]_vars
    /\ []( (applied # <<>> /\ applied[Len(applied)].by = "engine" /\ isGameOver(verdict)) =>
              (~inputEnabled /\ timers.enable = 0) )

\* the engine's move has ended the game: the input is disabled and no timer runs
C11_Witness ==
    /\ Len(applied) = 2
    /\ LastApplied.by = "engine"
    /\ isGameOver(verdict)
    /\ engine.go = 0
    /\ ~inputEnabled
    /\ timers.enable = 0

\* C12: the first three commands posted are 'uci', 'setoption name Skill Level
\* value 10' and 'ucinewgame', in that order, and commands are only ever added
\* after them; the ready flag is false at the start, goes from false to true on a
\* 'uciok' message and on no other step, and never goes back to false.
C12_StartupHandshake ==
    /\ ~stockfishReady
    /\ []( /\ Len(sent) >= 3
           /\ sent[1].cmd = "uci"
           /\ sent[2].cmd = "setoption name Skill Level value 10"
           /\ sent[3].cmd = "ucinewgame" )
    /\ [][ /\ Len(sent') >= Len(sent)
           /\ SubSeq(sent', 1, Len(sent)) = sent
           /\ stockfishReady => stockfishReady'
           /\ (~stockfishReady /\ stockfishReady') => WorkerMessage(<<"uciok">>)
           /\ WorkerMessage(<<"uciok">>) => stockfishReady' ]_vars

\* the handshake reply has arrived and a request has followed the three commands
C12_Witness ==
    /\ stockfishReady
    /\ ~engine.uci
    /\ Len(sent) = 5
    /\ sent[4].cmd = "position fen"

\* C13: once the shell has called updateInfo, with the game over the turn text is
\* empty and the status is the checkmate text naming the side that is not to move
\* as the winner, the stalemate text, or the draw text for any other ending; with
\* the game on the turn text is white's iff white is to move and the status is the
\* check warning iff the side to move is in check.
C13_InfoTexts ==
    mounted =>
        IF verdict \in {"checkmate", "stalemate", "draw"}
        THEN /\ turnText = ""
             /\ verdict = "checkmate" =>
                   statusText = IF turn = "b" THEN "Checkmate - White wins"
                                              ELSE "Checkmate - Black wins"
             /\ verdict = "stalemate" => statusText = "Stalemate - draw"
             /\ verdict = "draw" => statusText = "Draw"
        ELSE /\ turnText = "Your turn (White)" <=> turn = "w"
             /\ turnText = "Stockfish thinking" <=> turn = "b"
             /\ statusText = "Check" <=> verdict = "check"
             /\ statusText = "" <=> verdict = ""

\* the engine has mated: white is to move and Black is named the winner
C13_Witness ==
    /\ mounted
    /\ isCheckmate(verdict)
    /\ turn = "w"
    /\ turnText = ""
    /\ statusText = "Checkmate - Black wins"

\* C14: a move-start on a piece with no legal destination returns false and
\* leaves the position and the overlay unchanged; a move-start on a piece with
\* legal destinations returns true, marks exactly these destinations and renders
\* the overlay anew with the piece on the source square left out of the index.
C14_MoveStart ==
    [][ \A sq \in FromSquares :
          MoveInputStarted(sq) =>
              IF chessMoves(grid, turn, verdict, sq) = {}
              THEN /\ ret' = [type |-> "moveInputStarted", value |-> FALSE]
                   /\ UNCHANGED <<chessVars, shown, overlay>>
              ELSE /\ ret' = [type |-> "moveInputStarted", value |-> TRUE]
                   /\ markers' = chessMoves(grid, turn, verdict, sq)
                   /\ overlay'.rendered
                   /\ overlay'.excludeSquare = sq
                   /\ DOMAIN overlay'.index = {a[2] : a \in Attacking(grid, sq)}
                   /\ UNCHANGED <<chessVars, shown>> ]_vars

\* the e-pawn is picked up at the start: e3 and e4 are marked and the overlay is
\* rendered without the pawn
C14_Witness ==
    /\ applied = <<>>
    /\ ret = [type |-> "moveInputStarted", value |-> TRUE]
    /\ dragFrom = <<"e", "2">>
    /\ markers = {<<"e", "3">>, <<"e", "4">>}
    /\ overlay.excludeSquare = <<"e", "2">>

(***************************************************************************)
(* The attacker index with a square excluded.                              *)
(***************************************************************************)
\* the grid with the piece on sq taken off the board
removed(boardGrid, sq) == [boardGrid EXCEPT ![7 - rankOf(sq)][fileOf(sq)] = None]

\* C15: the index built with the square s excluded equals the index built, with
\* no exclusion, for the position with the piece on s taken off the board.
C15_ExcludedAsRemoved ==
    (geo.fn = "map" /\ geo.excludeSquare # NoSquare) =>
        geo.map = getAttackerMap(removed(grid, geo.excludeSquare), NoSquare)

(***************************************************************************)
(* The renderer's claims.                                                  *)
(***************************************************************************)
\* an element of the outline layer drawn for black's attackers: an outline or a
\* glyph stroked in the colour of black, or the badge of black's count
OfBlack(e) ==
    IF "stroke" \in DOMAIN e THEN e.stroke = "#b5412d"
    ELSE \/ e.tag = "circle" /\ e.fill = "#111111"
         \/ e.tag = "text" /\ e.fill = "#ffffff"

\* an element drawn for white's attackers: stroked in the colour of a piece type,
\* or the badge of white's count
OfWhite(e) ==
    IF "stroke" \in DOMAIN e THEN e.stroke \in {"#b088ff", "#00d4ff", "#ff00cc", "#ffe500"}
    ELSE \/ e.tag = "circle" /\ e.fill = "#ffffff"
         \/ e.tag = "text" /\ e.fill = "#111111"

\* C16: in both styles, with side = white the outline layer holds no element of
\* black's attackers, with side = black none of white's, and with side = both it
\* holds elements of both.
C16_SideFilter ==
    overlay.rendered =>
        /\ currentSettings.side = "white" => \A e \in DOMAIN overlay.outlines : ~OfBlack(e)
        /\ currentSettings.side = "black" => \A e \in DOMAIN overlay.outlines : ~OfWhite(e)
        /\ currentSettings.side = "both" =>
              /\ \E e \in DOMAIN overlay.outlines : OfBlack(e)
              /\ \E e \in DOMAIN overlay.outlines : OfWhite(e)

\* the types of the given colour in the entry of sq
AttackersOf(index, sq, color) == IF color = "w" THEN index[sq].w ELSE index[sq].b

\* C17: whatever the settings, the fill layer holds exactly one element for each
\* square of the attacker index: a rect of one square placed on the square, green
\* when only white attacks it, red when only black does, hatched when both do.
C17_Fills ==
    overlay.rendered =>
        /\ \A e \in DOMAIN overlay.fills : overlay.fills[e] = 1
        /\ Cardinality(DOMAIN overlay.fills) = Cardinality(DOMAIN overlay.index)
        /\ \A sq \in DOMAIN overlay.index :
              \E e \in DOMAIN overlay.fills :
                  /\ e.tag = "rect"
                  /\ e.x = fileOf(sq) * 1000 /\ e.y = (7 - rankOf(sq)) * 1000
                  /\ e.width = 1000 /\ e.height = 1000
                  /\ e.fill =
                        CASE AttackersOf(overlay.index, sq, "b") = {} -> "rgba(80,200,80,0.35)"
                          [] AttackersOf(overlay.index, sq, "w") = {} -> "rgba(220,60,60,0.35)"
                          [] OTHER -> "url(#hatch-both)"

\* fills of the three kinds under side = black, style = arrows
C17_Witness ==
    /\ overlay.rendered
    /\ currentSettings = [side |-> "black", style |-> "arrows"]
    /\ \A f \in {"rgba(80,200,80,0.35)", "rgba(220,60,60,0.35)", "url(#hatch-both)"} :
          \E e \in DOMAIN overlay.fills : e.fill = f

\* C18: the two layers hold what one updateOverlay call with the settings, the
\* excluded square and the position of the last call appends to empty layers:
\* nothing of an earlier rendering is left, and calls with the same settings,
\* excluded square and position give the same layers.
C18_RenderIdempotent ==
    overlay.rendered =>
        LET fresh == updateOverlay(NoOverlay, currentSettings, grid, overlay.excludeSquare)
        IN  /\ overlay.fills = fresh.fills
            /\ overlay.outlines = fresh.outlines

\* a rendering in arrows mode of the position after two moves, which follows
\* renderings of other positions, in squares mode
C18_Witness ==
    /\ overlay.rendered
    /\ Len(applied) = 2
    /\ currentSettings = [side |-> "both", style |-> "arrows"]
    /\ overlay.excludeSquare = NoSquare
    /\ \E e \in DOMAIN overlay.outlines : e.tag = "line"

\* C19: every applied move leaves the overlay rendered with no square excluded,
\* and the index of a rendered overlay is that of the position of the state: a
\* square has an entry iff a piece of the position, the excluded one apart,
\* attacks it, with the types of the attackers of each colour, and the fills are
\* those of these squares.  After e2-e4 from the start black is to move, the e-pawn
\* attacks d5 and f5 and neither d3 nor e3, and the index lists a white pawn on d5
\* and f5.
C19_IndexOfNewPosition ==
    /\ [][ Len(applied') = Len(applied) + 1 =>
              (overlay'.rendered /\ overlay'.excludeSquare = NoSquare) ]_vars
    /\ []( overlay.rendered =>
              LET attacking == Attacking(grid, overlay.excludeSquare)
                  types(color, sq) ==
                      {a[1].type : a \in {x \in attacking : x[2] = sq /\ x[1].color = color}}
              IN  /\ DOMAIN overlay.index = {a[2] : a \in attacking}
                  /\ \A sq \in DOMAIN overlay.index :
                        /\ overlay.index[sq].w = types("w", sq)
                        /\ overlay.index[sq].b = types("b", sq)
                  /\ {<<e.x, e.y>> : e \in DOMAIN overlay.fills} =
                        {<<fileOf(a[2]) * 1000, (7 - rankOf(a[2])) * 1000>> : a \in attacking} )
    /\ []( (Len(applied) = 1 /\ applied[1].from = <<"e", "2">> /\ applied[1].to = <<"e", "4">>) =>
              /\ turn = "b"
              /\ at(grid, <<"e", "2">>) = None
              /\ at(grid, <<"e", "4">>) = Piece("p", "w", <<"e", "4">>)
              /\ Range(getPieceAttacks(grid, "p", "w", <<"e", "4">>)) =
                    {<<"d", "5">>, <<"f", "5">>}
              /\ overlay.rendered
              /\ "p" \in overlay.index[<<"d", "5">>].w
              /\ "p" \in overlay.index[<<"f", "5">>].w )

\* e2-e4 has been played and the overlay shows the pawn's new attacks
C19_Witness ==
    /\ Len(applied) = 1
    /\ applied[1].from = <<"e", "2">>
    /\ applied[1].to = <<"e", "4">>
    /\ overlay.excludeSquare = NoSquare
    /\ overlay.index[<<"d", "5">>].w = {"p"}

\* C20: the attacks of a knight or a king are the squares of the board at its 8
\* offsets from the source square, whatever stands on the board: at most 8, each
\* once, squares with own pieces included; the knight on b1 of the start position
\* attacks exactly a3, c3 and d2.
C20_JumpAttacks ==
    /\ (geo.fn = "piece" /\ geo.piece.type \in {"n", "k"}) =>
          /\ Range(geo.attacks) =
                UNION {StepTo(geo.piece.square, d) :
                          d \in IF geo.piece.type = "n" THEN KnightLeaps ELSE KingSteps}
          /\ Len(geo.attacks) <= 8
          /\ Len(geo.attacks) = Cardinality(Range(geo.attacks))
    /\ Range(getPieceAttacks(StartGrid, "n", "w", <<"b", "1">>)) =
          {<<"a", "3">>, <<"c", "3">>, <<"d", "2">>}

\* a knight near the edge that attacks a square where a piece of its colour stands
C20_Witness ==
    /\ geo.fn = "piece"
    /\ geo.piece.type = "n"
    /\ Len(geo.attacks) < 8
    /\ \E sq \in Range(geo.attacks) :
          Occupied(grid, sq) /\ at(grid, sq).color = geo.piece.color

(***************************************************************************)
(* Geometry: pawns, bounds and order.                                      *)
(***************************************************************************)
\* C21: the attacks of a pawn on file f and rank r are the squares of the board
\* among (f - 1, r + d) and (f + 1, r + d), d = 1 for white and -1 for black,
\* whatever stands on them; the square in front of the pawn is never one of them.
C21_PawnAttacks ==
    (geo.fn = "piece" /\ geo.piece.type = "p") =>
        LET f == fileOf(geo.piece.square)
            r == rankOf(geo.piece.square)
            d == IF geo.piece.color = "w" THEN 1 ELSE -1
        IN  /\ Range(geo.attacks) =
                  {sq \in Squares : fileOf(sq) \in {f - 1, f + 1} /\ rankOf(sq) = r + d}
            /\ Len(geo.attacks) = Cardinality(Range(geo.attacks))
            /\ \A sq \in Range(geo.attacks) : fileOf(sq) # f

\* a black pawn that attacks an occupied and an empty square, a piece in front of it
C21_Witness ==
    /\ geo.fn = "piece"
    /\ geo.piece.type = "p"
    /\ geo.piece.color = "b"
    /\ Len(geo.attacks) = 2
    /\ \E sq \in Range(geo.attacks) : Occupied(grid, sq)
    /\ \E sq \in Range(geo.attacks) : ~Occupied(grid, sq)
    /\ \E sq \in Squares : /\ StepsFrom(geo.piece.square, <<0, -1>>, 1, sq)
                           /\ Occupied(grid, sq)

\* the offsets of a piece, and how many times over it takes them
OffsetsOf(piece) ==
    CASE piece.type = "p" -> {<<-1, IF piece.color = "w" THEN 1 ELSE -1>>,
                              <<1, IF piece.color = "w" THEN 1 ELSE -1>>}
      [] piece.type = "n" -> KnightLeaps
      [] piece.type = "k" -> KingSteps
      [] OTHER -> RayDirs(piece.type)

ReachOf(piece) == IF piece.type \in SlidingTypes THEN 1..(BoardSize - 1) ELSE {1}

\* C22: every square getPieceAttacks and getSlidingRayEndpoints return is a square
\* of the board, files a to h and ranks 1 to 8, that lies at an offset of the
\* piece, taken once or (for a sliding piece) several times over, from the source
\* square, files and ranks counted without wrapping.
C22_WithinBounds ==
    geo.fn = "piece" =>
        \A sq \in Range(geo.attacks) \cup Range(geo.endpoints) :
            /\ Len(sq) = 2
            /\ \E i \in 1..8 : sq[1] = FileChars[i]
            /\ \E j \in 1..8 : sq[2] = RankChars[j]
            /\ \E d \in OffsetsOf(geo.piece), k \in ReachOf(geo.piece) :
                  StepsFrom(geo.piece.square, d, k, sq)

\* a knight on the h file, a corner apart: some of its offsets leave the board
C22_Witness ==
    /\ geo.fn = "piece"
    /\ geo.piece.type = "n"
    /\ fileOf(geo.piece.square) = BoardSize - 1
    /\ Len(geo.attacks) \in {3, 4}

\* the direction list of a piece, in the order of the source
DirList(piece) ==
    CASE piece.type = "p" -> << <<-1, IF piece.color = "w" THEN 1 ELSE -1>>,
                                <<1, IF piece.color = "w" THEN 1 ELSE -1>> >>
      [] piece.type = "n" -> KnightOffsets
      [] piece.type = "b" -> BishopDirs
      [] piece.type = "r" -> RookDirs
      [] piece.type = "q" -> QueenDirs
      [] piece.type = "k" -> KingOffsets

\* <<i, k>>: sq lies k steps from the source in the i-th direction of the list
PlaceOf(piece, sq) ==
    CHOOSE ik \in (1..Len(DirList(piece))) \X (1..(BoardSize - 1)) :
        StepsFrom(piece.square, DirList(piece)[ik[1]], ik[2], sq)

\* C27: the squares of getPieceAttacks stand in the order of the direction list
\* of the piece type and, within a direction, by growing distance from the source;
\* no square stands twice and the source square is not among them.
C27_AttackOrder ==
    geo.fn = "piece" =>
        LET places == {<<i, PlaceOf(geo.piece, geo.attacks[i])>> : i \in 1..Len(geo.attacks)}
        IN  /\ \A a, b \in places :
                  a[1] < b[1] =>
                      \/ a[2][1] < b[2][1]
                      \/ (a[2][1] = b[2][1] /\ a[2][2] < b[2][2])
            /\ Len(geo.attacks) = Cardinality(Range(geo.attacks))
            /\ geo.piece.square \notin Range(geo.attacks)

\* a queen with squares in several directions and several squares in one of them
C27_Witness ==
    /\ geo.fn = "piece"
    /\ geo.piece.type = "q"
    /\ Cardinality(boardPieces(grid)) = 3
    /\ Len(geo.attacks) > 12
    /\ \E i \in 1..(Len(geo.attacks) - 1) :
          PlaceOf(geo.piece, geo.attacks[i])[1] = PlaceOf(geo.piece, geo.attacks[i + 1])[1]

(***************************************************************************)
(* The start of the session.                                               *)
(***************************************************************************)
\* the standard starting position
StandardStart(boardGrid) ==
    LET back == <<"r", "n", "b", "q", "k", "b", "n", "r">>
    IN  \A i \in 1..8 :
            /\ boardGrid[7][i - 1] = [type |-> back[i], color |-> "w",
                                      square |-> <<FileChars[i], "1">>]
            /\ boardGrid[6][i - 1] = [type |-> "p", color |-> "w",
                                      square |-> <<FileChars[i], "2">>]
            /\ \A row \in 2..5 : boardGrid[row][i - 1] = None
            /\ boardGrid[1][i - 1] = [type |-> "p", color |-> "b",
                                      square |-> <<FileChars[i], "7">>]
            /\ boardGrid[0][i - 1] = [type |-> back[i], color |-> "b",
                                      square |-> <<FileChars[i], "8">>]

\* C23: at the start the position is the standard starting position with white
\* to move, the engine proxy is not ready and no request has been posted; the
\* shell's initialisation leaves the input enabled, on that position, with white
\* to move and still no request posted.
C23_InitialState ==
    /\ StandardStart(grid)
    /\ turn = "w"
    /\ ~stockfishReady
    /\ engine.go = 0
    /\ goCount(sent) = 0
    /\ [][ (~mounted /\ mounted') =>
              /\ inputEnabled'
              /\ StandardStart(grid')
              /\ turn' = "w"
              /\ ~isGameOver(verdict')
              /\ applied' = <<>>
              /\ engine'.go = 0
              /\ goCount(sent') = 0 ]_vars

\* the shell has initialised the session before the handshake reply
C23_Witness ==
    /\ mounted
    /\ inputEnabled
    /\ applied = <<>>
    /\ dragFrom = NoSquare
    /\ ret = NoReturn
    /\ ~stockfishReady

(***************************************************************************)
(* Squares mode: badges and outlines.                                      *)
(***************************************************************************)
\* the side's attackers are among those the settings ask for
SideShown(s, color) ==
    IF color = "w" THEN s.side # "black" ELSE s.side # "white"

\* the badge numbers drawn at a point of the outline layer
BadgeNumbers(x, y) ==
    {e.textContent : e \in {d \in DOMAIN overlay.outlines :
                              d.tag = "text" /\ d.x = x /\ d.y = y}}

\* C24: in squares mode, on every square attacked by both colours, each side
\* that is shown has a badge in its top corner (white's left, black's right)
\* and the number on it is the number of that side's pieces attacking the
\* square.
C24_BadgeCounts ==
    (overlay.rendered /\ currentSettings.style = "squares") =>
        LET attacking == Attacking(grid, overlay.excludeSquare)
            attackers == [c \in {"w", "b"} |->
                            [sq \in Squares |->
                                Cardinality({a \in attacking :
                                               a[2] = sq /\ a[1].color = c})]]
        IN  \A sq \in Squares :
                (attackers["w"][sq] > 0 /\ attackers["b"][sq] > 0) =>
                    LET left  == fileOf(sq) * 1000
                        top   == (7 - rankOf(sq)) * 1000
                    IN  /\ SideShown(currentSettings, "w") =>
                               BadgeNumbers(left + 200, top + 200) = {attackers["w"][sq]}
                        /\ SideShown(currentSettings, "b") =>
                               BadgeNumbers(left + 800, top + 200) = {attackers["b"][sq]}

\* the outline colour of a white piece type
TypeColour(type) ==
    CASE type = "p" -> "#b088ff"
      [] type = "n" -> "#00d4ff"
      [] type = "b" -> "#00d4ff"
      [] type = "r" -> "#ff00cc"
      [] type = "q" -> "#ff00cc"
      [] type = "k" -> "#ffe500"

\* the dashed rectangle outlines drawn on a square
OutlinesAt(sq) ==
    {e \in DOMAIN overlay.outlines :
        /\ e.tag = "rect"
        /\ "dasharray" \in DOMAIN e
        /\ e.x = fileOf(sq) * 1000 + 50
        /\ e.y = (7 - rankOf(sq)) * 1000 + 50}

\* n outlines on a square, each drawn once, dashed 150 on and (n - 1) * 150 off,
\* the i-th shifted by -i * 150
Interleaved(sq, n) ==
    /\ Cardinality(OutlinesAt(sq)) = n
    /\ \A e \in OutlinesAt(sq) :
           /\ overlay.outlines[e] = 1
           /\ e.dasharray = <<150, (n - 1) * 150>>
    /\ {e.dashoffset : e \in OutlinesAt(sq)} = {-i * 150 : i \in 0..(n - 1)}

\* C25 as stated: in squares mode every indexed square has one outline for each
\* distinct white piece type attacking it and one for all black attackers, the
\* n outlines of a square interleaved.
C25_OutlinePerType ==
    (overlay.rendered /\ currentSettings.style = "squares") =>
        \A sq \in DOMAIN overlay.index :
            LET entry == overlay.index[sq]
            IN  Interleaved(sq, Cardinality(entry.w)
                                + (IF entry.b # {} THEN 1 ELSE 0))

\* C25: in squares mode every indexed square has one outline for each distinct
\* colour of the white piece types attacking it, when white is shown, and one
\* fixed-colour outline for all black attackers; the n outlines of a square are
\* interleaved.
C25_OutlinePerColour ==
    (overlay.rendered /\ currentSettings.style = "squares") =>
        \A sq \in DOMAIN overlay.index :
            LET entry  == overlay.index[sq]
                whites == IF currentSettings.side # "black"
                          THEN {TypeColour(t) : t \in entry.w} ELSE {}
                blacks == IF entry.b # {} THEN {"#b5412d"} ELSE {}
            IN  /\ Interleaved(sq, Cardinality(whites \cup blacks))
                /\ {e.stroke : e \in OutlinesAt(sq)} = whites \cup blacks

\* a square attacked by white's knight, bishop, queen and king has three
\* outlines
C25_Witness ==
    /\ overlay.rendered
    /\ currentSettings.style = "squares"
    /\ currentSettings.side # "black"
    /\ \E sq \in DOMAIN overlay.index :
           /\ {"n", "b"} \subseteq overlay.index[sq].w
           /\ Cardinality(OutlinesAt(sq)) >= 2

(***************************************************************************)
(* Arrows mode.                                                            *)
(***************************************************************************)
\* the squares a piece's glyphs point at: every attacked square of a knight,
\* king or pawn, the last square of each non-empty ray of a bishop, rook or
\* queen
GlyphTargets(boardGrid, piece) ==
    IF piece.type \in {"n", "k", "p"}
    THEN {sq \in Squares :
            \E d \in OffsetsOf(piece) : StepsFrom(piece.square, d, 1, sq)}
    ELSE UNION {LET ray == RaySquares(boardGrid, piece.square, d)
                IN  {sq \in ray :
                       \A other \in ray :
                           \E k \in 0..(BoardSize - 1) : StepsFrom(other, d, k, sq)} :
                d \in RayDirs(piece.type)}

\* the arrowhead of an outline colour
MarkerOf(colour) ==
    CASE colour = "#b088ff" -> "arrow-purple"
      [] colour = "#00d4ff" -> "arrow-cyan"
      [] colour = "#ff00cc" -> "arrow-magenta"
      [] colour = "#ffe500" -> "arrow-yellow"
      [] colour = "#b5412d" -> "arrow-brown"

\* the glyph of a piece for a target square: a circle for a knight, a small
\* square for a king, an arrow from the piece otherwise
GlyphOf(piece, sq) ==
    LET colour == IF piece.color = "b" THEN "#b5412d" ELSE TypeColour(piece.type)
        cx     == fileOf(sq) * 1000 + 500
        cy     == (7 - rankOf(sq)) * 1000 + 500
    IN  CASE piece.type = "n" ->
                [tag |-> "circle", cx |-> cx, cy |-> cy, r |-> 175,
                 fill |-> "none", stroke |-> colour]
          [] piece.type = "k" ->
                [tag |-> "rect", x |-> cx - 150, y |-> cy - 150,
                 width |-> 300, height |-> 300, fill |-> "none", stroke |-> colour]
          [] OTHER ->
                [tag |-> "line",
                 x1 |-> fileOf(piece.square) * 1000 + 500,
                 y1 |-> (7 - rankOf(piece.square)) * 1000 + 500,
                 x2 |-> cx, y2 |-> cy,
                 stroke |-> colour, markerEnd |-> MarkerOf(colour)]

\* the side an element of the outline layer is drawn for
DrawnFor(e) == IF e.stroke = "#b5412d" THEN "b" ELSE "w"

\* C26: in arrows mode the glyphs of a shown side in the outline layer are, one
\* for one, the glyphs of that side's pieces other than the excluded one: one
\* per attacked square of a knight, king or pawn, one per non-empty ray of a
\* bishop, rook or queen, ending on the ray's last square.
C26_ArrowGlyphs ==
    (overlay.rendered /\ currentSettings.style = "arrows") =>
        LET pieces == {p \in IndexedPieces(grid, overlay.excludeSquare) :
                          SideShown(currentSettings, p.color)}
            glyphs == UNION {{<<p.square, sq, GlyphOf(p, sq)>> :
                                 sq \in GlyphTargets(grid, p)} : p \in pieces}
        IN  /\ \A g \in glyphs :
                   /\ g[3] \in DOMAIN overlay.outlines
                   /\ overlay.outlines[g[3]] = Cardinality({h \in glyphs : h[3] = g[3]})
            /\ \A e \in DOMAIN overlay.outlines :
                   SideShown(currentSettings, DrawnFor(e)) =>
                       \E g \in glyphs : g[3] = e

\* arrows are drawn while a piece is lifted after two moves
C26_Witness ==
    /\ overlay.rendered
    /\ currentSettings.style = "arrows"
    /\ overlay.excludeSquare # NoSquare
    /\ Len(applied) = 2
    /\ \E e \in DOMAIN overlay.outlines : e.tag = "line"

(***************************************************************************)
(* The drag preview and the remembered settings.                           *)
(***************************************************************************)
\* C28: an overlay rendered with a square excluded is shown only while the piece
\* of that square is being dragged; the step that ends a drag, a cancel or a
\* validation that accepts or rejects the move, leaves the overlay rendered with
\* no square excluded for the position after the step.
C28_PreviewEndsWithDrag ==
    /\ []( overlay.excludeSquare # NoSquare =>
              (inputEnabled /\ dragFrom = overlay.excludeSquare) )
    /\ [][ (dragFrom # NoSquare /\ dragFrom' = NoSquare) =>
              /\ ret'.type \in {"validateMoveInput", "moveInputCanceled"}
              /\ overlay'.rendered
              /\ overlay'.excludeSquare = NoSquare
              /\ overlay'.index = getAttackerMap(grid', NoSquare) ]_vars

\* a drag started after two moves has been cancelled
C28_Witness ==
    /\ ret.type = "moveInputCanceled"
    /\ Len(applied) = 2
    /\ dragFrom = NoSquare
    /\ overlay.rendered
    /\ overlay.excludeSquare = NoSquare

\* C30: the remembered settings are the defaults, side = white and style =
\* squares, until the shell's first call and the settings of the shell's last
\* call after it; only a call of the shell changes them, and the outlines of a
\* rendered overlay are those drawn with the shell's settings.
C30_RememberedSettings ==
    /\ currentSettings = [side |-> "white", style |-> "squares"]
    /\ []( ~mounted => currentSettings = [side |-> "white", style |-> "squares"] )
    /\ []( mounted => currentSettings = settings )
    /\ [][ currentSettings' # currentSettings =>
              (ShellMount \/ \E s \in SettingsValues : ShellSettings(s)) ]_vars
    /\ []( overlay.rendered =>
              overlay.outlines =
                  updateOverlay(NoOverlay, settings, grid, overlay.excludeSquare).outlines )

\* a drag is cancelled after two moves under settings other than the defaults
C30_Witness ==
    /\ mounted
    /\ settings # [side |-> "white", style |-> "squares"]
    /\ currentSettings = settings
    /\ Len(applied) = 2
    /\ ret.type = "moveInputCanceled"
    /\ overlay.rendered

(***************************************************************************)
(* Progress of the session.                                                *)
(***************************************************************************)
\* the engine has answered every request it has taken up with a move that was
\* applied
EngineAnsweredWell == engineMoves(applied) = goCount(sent) - engine.go

\* C29: while the engine answers every request with a legal move, the session is
\* never left with the input disabled and the game not over unless something is
\* still to come that leads to the input being enabled: the delay before the
\* request, a request the engine has not answered, or the delay after the
\* engine's move.
C29_NoDeadlock ==
    (mounted /\ EngineAnsweredWell /\ ~inputEnabled /\ ~isGameOver(verdict)) =>
        (timers.ask > 0 \/ engine.go > 0 \/ timers.enable > 0)

====
